---- MODULE Spec2Model ----
(***************************************************************************)
(* Forwarding gateway of src/main.py: six FastAPI routes, five of which    *)
(* make one outbound httpx call and map its outcome to an HTTP response.   *)
(*                                                                         *)
(* Text is a sequence of chunks (<<>> is the empty string, \o is string    *)
(* concatenation).  A JSON value is a record [k, s, n, o]: k the kind,     *)
(* s the text of a string, n the value of a number, o the members of an    *)
(* object as a set of <<key, value>> pairs.                                *)
(***************************************************************************)
EXTENDS Integers, Sequences, FiniteSets, TLC

\* ------------------------------------------------------------------ bounds
\* Number of requests the server handles concurrently (ConcSpec).
MaxInFlight == 2

\* ------------------------------------------------------- program constants
HEYGEN_TIMEOUT == 60
CHAT_TIMEOUT == 120

\* -------------------------------------------------------------- JSON values
JNone == [k |-> "none", s |-> <<>>, n |-> 0, o |-> {}]
JNull == [k |-> "null", s |-> <<>>, n |-> 0, o |-> {}]
JArr == [k |-> "arr", s |-> <<>>, n |-> 0, o |-> {}]
JStr(t) == [k |-> "str", s |-> t, n |-> 0, o |-> {}]
JNum(i) == [k |-> "num", s |-> <<>>, n |-> i, o |-> {}]
JObj(members) == [k |-> "obj", s |-> <<>>, n |-> 0, o |-> members]
\* a body that is not JSON at all (the framework's text/plain error page)
Plain(t) == [k |-> "plain", s |-> t, n |-> 0, o |-> {}]

HasField(v, key) == v.k = "obj" /\ \E p \in v.o : p[1] = key
Field(v, key) == (CHOOSE p \in v.o : p[1] = key)[2]

\* mutant of Truthy: `if message is None`, the empty string passes
IsNotNone(v) == v.k # "null"

\* Python truth value of a parsed JSON value (`not message`, `if data.get(..)`)
Truthy(v) ==
    CASE v.k = "str" -> v.s # <<>>
      [] v.k = "num" -> v.n # 0
      [] v.k = "obj" -> v.o # {}
      [] OTHER -> FALSE

\* dict.get(key): the member, or None when the key is absent
DictGet(data, key) == IF HasField(data, key) THEN Field(data, key) ELSE JNull

\* ------------------------------------------------------------------- texts
EmptyText == <<>>
BadGatewayText == <<"Bad Gateway">>
CodeText == <<"{\"code\": 42}">>
ArrayText == <<"[]">>
Texts == {EmptyText, BadGatewayText, CodeText, ArrayText}

JSONDecodeErrorMsg == <<"Expecting value: line 1 column 1 (char 0)">>
AttributeErrorKeys == <<"'list' object has no attribute 'keys'">>
AttributeErrorGet == <<"'list' object has no attribute 'get'">>
ConnectErrorMsg == <<"All connection attempts failed">>
TracebackText == <<"Traceback (most recent call last): ...">>

\* Response.json(): [ok, val]; ok = FALSE stands for json.JSONDecodeError
ParseJson(t) ==
    CASE t = CodeText -> [ok |-> TRUE, val |-> JObj({<<"code", JNum(42)>>})]
      [] t = ArrayText -> [ok |-> TRUE, val |-> JArr]
      [] OTHER -> [ok |-> FALSE, val |-> JNone]

ReadTimeoutMsg == <<"The read operation timed out">>

\* ------------------------------------------------- responses and outcomes
Response(status, body) == [status |-> status, body |-> body, by |-> "handler"]
NoResponse == [status |-> 0, body |-> JNone, by |-> "none"]
\* An exception that leaves the route function: the framework answers with
\* its own text/plain page, the handler builds nothing.
UnhandledResponse ==
    [status |-> 500, body |-> Plain(<<"Internal Server Error">>), by |-> "framework"]

ErrorBody(t) == JObj({<<"error", JStr(t)>>})

\* What the upstream does with one call: it answers (status, text) after
\* keeping the client waiting `stall` seconds, or the connection fails.
Answer(stall, status, text) ==
    [kind |-> "response", stall |-> stall, status |-> status, text |-> text]
NetError == [kind |-> "neterr", stall |-> 0, status |-> 0, text |-> <<>>]
NoOutcome == [kind |-> "none", stall |-> 0, status |-> 0, text |-> <<>>]

\* Result of the body of a try block: a value returned (answered with
\* `code`), or an exception raised.
Return(code, val) ==
    [tag |-> "return", code |-> code, val |-> val, exc |-> "", msg |-> <<>>,
     status |-> 0, text |-> <<>>]
Raise(exc, msg, status, text) ==
    [tag |-> "raise", code |-> 0, val |-> JNone, exc |-> exc, msg |-> msg,
     status |-> status, text |-> text]
NoResult ==
    [tag |-> "none", code |-> 0, val |-> JNone, exc |-> "", msg |-> <<>>,
     status |-> 0, text |-> <<>>]

\* Response.is_success, the test of raise_for_status()
is_success(status) == status >= 200 /\ status <= 299

\* await client.get / client.post under the client's timeout
Await(out, timeout) ==
    IF out.kind = "neterr" THEN Raise("ConnectError", ConnectErrorMsg, 0, <<>>)
    ELSE IF out.stall > timeout
    THEN Raise("TimeoutException", ReadTimeoutMsg, 0, <<>>)
    ELSE Return(out.status, JNone)

\* mutant of heygen_get: only status 200 counts as success
heygen_get_only200(out) ==
    LET res == Await(out, HEYGEN_TIMEOUT) IN
    IF res.tag = "raise" THEN res
    ELSE IF out.status # 200
    THEN Raise("HTTPStatusError", <<>>, out.status, out.text)
    ELSE LET j == ParseJson(out.text) IN
         IF j.ok THEN Return(200, j.val)
         ELSE Raise("JSONDecodeError", JSONDecodeErrorMsg, 0, <<>>)

\* ----------------------------------------------------------------- helpers
heygen_get(out) ==
    LET res == Await(out, HEYGEN_TIMEOUT) IN
    IF res.tag = "raise" THEN res
    ELSE IF ~is_success(out.status)
    THEN Raise("HTTPStatusError", <<>>, out.status, out.text)
    ELSE LET j == ParseJson(out.text) IN
         IF j.ok THEN Return(200, j.val)
         ELSE Raise("JSONDecodeError", JSONDecodeErrorMsg, 0, <<>>)

\* ---------------------------------------------------------------- handlers
root_body ==
    JObj({<<"status", JStr(<<"ok">>)>>,
          <<"service", JStr(<<"HeyGen LiveAvatar Streaming Backend">>)>>,
          <<"endpoints", JStr(<<"...">>)>>,
          <<"limits", JStr(<<"...">>)>>})

\* try block of get_streaming_token
streaming_token_body(out) ==
    LET res == Await(out, HEYGEN_TIMEOUT) IN
    IF res.tag = "raise" THEN res
    ELSE IF out.status # 200
    THEN Return(out.status,
                JObj({<<"error", JStr(out.text)>>,
                      <<"status", JNum(out.status)>>,
                      <<"details", JStr(<<"Check backend logs">>)>>}))
    ELSE LET j == ParseJson(out.text) IN
         IF ~j.ok THEN Raise("JSONDecodeError", JSONDecodeErrorMsg, 0, <<>>)
         ELSE IF j.val.k # "obj"
         THEN Raise("AttributeError", AttributeErrorKeys, 0, <<>>)
         ELSE Return(200, j.val)

\* except clauses of get_streaming_token
get_streaming_token(p) ==
    IF p.tag = "return" THEN Response(p.code, p.val)
    ELSE IF p.exc = "TimeoutException"
    THEN Response(504, ErrorBody(<<"Request timeout: ">> \o p.msg))
    ELSE IF p.exc = "HTTPStatusError"
    THEN Response(p.status,
                  JObj({<<"error", JStr(p.text)>>, <<"status", JNum(p.status)>>}))
    ELSE Response(500, JObj({<<"error", JStr(p.msg)>>,
                             <<"traceback", JStr(TracebackText)>>}))

get_avatars(p) ==
    IF p.tag = "return" THEN Response(p.code, p.val)
    ELSE IF p.exc = "TimeoutException"
    THEN Response(504, ErrorBody(<<"Request timeout: ">> \o p.msg))
    ELSE IF p.exc = "HTTPStatusError"
    THEN Response(p.status, ErrorBody(p.text))
    ELSE Response(500, JObj({<<"error", JStr(p.msg)>>,
                             <<"traceback", JStr(TracebackText)>>}))

\* mutant of get_interactive_avatars: the generic clause of get_avatars
get_interactive_avatars_traceback(p) ==
    IF p.tag = "return" THEN Response(p.code, p.val)
    ELSE IF p.exc = "TimeoutException"
    THEN Response(504, ErrorBody(<<"Request timeout: ">> \o p.msg))
    ELSE IF p.exc = "HTTPStatusError"
    THEN Response(p.status, ErrorBody(p.text))
    ELSE Response(500, JObj({<<"error", JStr(p.msg)>>,
                             <<"traceback", JStr(TracebackText)>>}))

get_interactive_avatars(p) ==
    IF p.tag = "return" THEN Response(p.code, p.val)
    ELSE IF p.exc = "TimeoutException"
    THEN Response(504, ErrorBody(<<"Request timeout: ">> \o p.msg))
    ELSE IF p.exc = "HTTPStatusError"
    THEN Response(p.status, ErrorBody(p.text))
    ELSE Response(500, ErrorBody(p.msg))

\* mutant of get_voices: the upstream error body is parsed, as chat does
get_voices_parsing(p) ==
    IF p.tag = "return" THEN Response(p.code, p.val)
    ELSE IF p.exc = "TimeoutException"
    THEN Response(504, ErrorBody(<<"Request timeout: ">> \o p.msg))
    ELSE IF p.exc = "HTTPStatusError"
    THEN LET j == ParseJson(p.text) IN
         IF j.ok THEN Response(p.status, j.val)
         ELSE Response(p.status, ErrorBody(p.text))
    ELSE Response(500, ErrorBody(p.msg))

get_voices(p) ==
    IF p.tag = "return" THEN Response(p.code, p.val)
    ELSE IF p.exc = "TimeoutException"
    THEN Response(504, ErrorBody(<<"Request timeout: ">> \o p.msg))
    ELSE IF p.exc = "HTTPStatusError"
    THEN Response(p.status, ErrorBody(p.text))
    ELSE Response(500, ErrorBody(p.msg))

\* mutant of chat_payload: conversation_id is always forwarded
chat_payload_always(data) ==
    JObj({<<"message", DictGet(data, "message")>>,
          <<"conversation_id", DictGet(data, "conversation_id")>>})

\* the payload chat prepares for the RAG API
chat_payload(data) ==
    JObj({<<"message", DictGet(data, "message")>>}
         \cup (IF Truthy(DictGet(data, "conversation_id"))
               THEN {<<"conversation_id", Field(data, "conversation_id")>>}
               ELSE {}))

\* chat, up to the outbound call: [go, payload, resp]
chat_validate(inb) ==
    IF ~inb.ok
    THEN [go |-> FALSE, payload |-> JNone,
          resp |-> Response(500, ErrorBody(JSONDecodeErrorMsg))]
    ELSE IF inb.val.k # "obj"
    THEN [go |-> FALSE, payload |-> JNone,
          resp |-> Response(500, ErrorBody(AttributeErrorGet))]
    ELSE IF ~Truthy(DictGet(inb.val, "message"))
    THEN [go |-> FALSE, payload |-> JNone,
          resp |-> Response(400, ErrorBody(<<"Message is required">>))]
    ELSE [go |-> TRUE, payload |-> chat_payload(inb.val), resp |-> NoResponse]

\* the `async with` block of chat
chat_body(out) ==
    LET res == Await(out, CHAT_TIMEOUT) IN
    IF res.tag = "raise" THEN res
    ELSE IF ~is_success(out.status)
    THEN Raise("HTTPStatusError", <<>>, out.status, out.text)
    ELSE LET j == ParseJson(out.text) IN
         IF j.ok THEN Return(200, j.val)
         ELSE Raise("JSONDecodeError", JSONDecodeErrorMsg, 0, <<>>)

\* mutant of chat: `except Exception` comes first
chat_generic_first(p) ==
    IF p.tag = "return" THEN Response(p.code, p.val)
    ELSE Response(500, ErrorBody(p.msg))

\* except clauses of chat
chat(p) ==
    IF p.tag = "return" THEN Response(p.code, p.val)
    ELSE IF p.exc = "TimeoutException"
    THEN Response(504, ErrorBody(<<"Request timeout: ">> \o p.msg
                       \o <<". RAG API is taking too long to respond.">>))
    ELSE IF p.exc = "HTTPStatusError"
    THEN IF p.text # <<>>
         THEN LET j == ParseJson(p.text) IN
              IF j.ok THEN Response(p.status, j.val)
              ELSE UnhandledResponse
         ELSE Response(p.status, ErrorBody(p.text))
    ELSE Response(500, ErrorBody(p.msg))

\* ------------------------------------------------------------------ inputs
Ops == {"root", "get_streaming_token", "get_avatars",
        "get_interactive_avatars", "get_voices", "chat"}
Forwarding == Ops \ {"root"}
ListOps == {"get_avatars", "get_interactive_avatars", "get_voices"}

\* inbound request bodies of POST /chat: [ok, val] as request.json() sees them
NoInbound == [ok |-> FALSE, val |-> JNone]
Malformed == [ok |-> FALSE, val |-> Plain(<<"{oops">>)]
Json(v) == [ok |-> TRUE, val |-> v]
MessageOpts == {{}, {<<"message", JStr(<<>>)>>}, {<<"message", JStr(<<"hi">>)>>}}
ConversationOpts ==
    {{}, {<<"conversation_id", JNull>>}, {<<"conversation_id", JStr(<<>>)>>},
     {<<"conversation_id", JStr(<<"abc">>)>>}}
ExtraOpts == {{}, {<<"user", JStr(<<"u1">>)>>}}
Inbounds ==
    {Malformed, Json(JArr)}
    \cup {Json(JObj(m \cup c \cup x)) :
            m \in MessageOpts, c \in ConversationOpts, x \in ExtraOpts}
ConcInbounds ==
    {Malformed, Json(JObj({<<"message", JStr(<<>>)>>})),
     Json(JObj({<<"message", JStr(<<"hi">>)>>}))}

\* seconds the upstream keeps the client waiting: below both timeouts,
\* between them, above both
Stalls == {1, 90, 150}
Statuses == {200, 201, 404, 502}
Outcomes ==
    {NetError} \cup {Answer(st, c, t) : st \in Stalls, c \in Statuses, t \in Texts}
ConcOutcomes ==
    {NetError, Answer(1, 200, CodeText), Answer(1, 200, BadGatewayText),
     Answer(1, 502, BadGatewayText), Answer(150, 200, CodeText)}

\* ------------------------------------------------------------------- state
Slots == 1..MaxInFlight

VARIABLES
    pc,        \* slot -> position of the request handled there
    op,        \* slot -> route of the request ("" when idle)
    inbound,   \* slot -> inbound request body
    client,    \* slot -> httpx.AsyncClient the handler holds (0: none)
    open,      \* the AsyncClient objects that are open
    calls,     \* slot -> outbound calls made for the request
    outbound,  \* slot -> the outbound call
    upstream,  \* slot -> what the upstream did with the call
    pending,   \* slot -> result of the try block, before the client is left
    resp       \* slot -> response returned to the caller

vars == <<pc, op, inbound, client, open, calls, outbound, upstream, pending, resp>>

NoCall == [method |-> "", path |-> "", key |-> FALSE, body |-> JNone]
Call(method, path, key, body) ==
    [method |-> method, path |-> path, key |-> key, body |-> body]

\* the outbound call of each route
OutboundCall(o, inb) ==
    CASE o = "get_streaming_token" ->
            Call("POST", "v1/streaming.create_token", TRUE, JNone)
      [] o = "get_avatars" -> Call("GET", "v2/avatars", TRUE, JNone)
      [] o = "get_interactive_avatars" ->
            Call("GET", "v1/streaming/avatar.list", TRUE, JNone)
      [] o = "get_voices" -> Call("GET", "v2/voices", TRUE, JNone)
      [] o = "chat" -> Call("POST", "chat/", FALSE, chat_validate(inb).payload)

\* the try block of each route, from the outcome of its call
TryBlock(o, out) ==
    CASE o = "get_streaming_token" -> streaming_token_body(out)
      [] o = "chat" -> chat_body(out)
      [] OTHER -> heygen_get(out)

\* the response of each route, from the result of its try block
Handler(o, p) ==
    CASE o = "get_streaming_token" -> get_streaming_token(p)
      [] o = "get_avatars" -> get_avatars(p)
      [] o = "get_interactive_avatars" -> get_interactive_avatars(p)
      [] o = "get_voices" -> get_voices(p)
      [] o = "chat" -> chat(p)

\* httpx.AsyncClient(...): a new object, distinct from every live one.  Which
\* identity it gets is immaterial; r takes its own number when that is free.
AsyncClient(live, r) ==
    IF r \notin live THEN r ELSE CHOOSE c \in Slots \ live : TRUE

Init ==
    /\ pc = [r \in Slots |-> "idle"]
    /\ op = [r \in Slots |-> ""]
    /\ inbound = [r \in Slots |-> NoInbound]
    /\ client = [r \in Slots |-> 0]
    /\ open = {}
    /\ calls = [r \in Slots |-> 0]
    /\ outbound = [r \in Slots |-> NoCall]
    /\ upstream = [r \in Slots |-> NoOutcome]
    /\ pending = [r \in Slots |-> NoResult]
    /\ resp = [r \in Slots |-> NoResponse]

\* a request arrives and is routed
Arrive(r, o, inb) ==
    /\ pc[r] = "idle"
    /\ (o = "chat") = (inb # NoInbound)
    /\ pc' = [pc EXCEPT ![r] = "handling"]
    /\ op' = [op EXCEPT ![r] = o]
    /\ inbound' = [inbound EXCEPT ![r] = inb]
    /\ UNCHANGED <<client, open, calls, outbound, upstream, pending, resp>>

\* GET /
root(r) ==
    /\ pc[r] = "handling" /\ op[r] = "root"
    /\ resp' = [resp EXCEPT ![r] = Response(200, root_body)]
    /\ pc' = [pc EXCEPT ![r] = "responded"]
    /\ UNCHANGED <<op, inbound, client, open, calls, outbound, upstream, pending>>

\* POST /chat answered before any client is opened
ChatReject(r) ==
    /\ pc[r] = "handling" /\ op[r] = "chat"
    /\ ~chat_validate(inbound[r]).go
    /\ resp' = [resp EXCEPT ![r] = chat_validate(inbound[r]).resp]
    /\ pc' = [pc EXCEPT ![r] = "responded"]
    /\ UNCHANGED <<op, inbound, client, open, calls, outbound, upstream, pending>>

\* async with httpx.AsyncClient(timeout=...) as client
OpenClient(r) ==
    /\ pc[r] = "handling" /\ op[r] \in Forwarding
    /\ op[r] = "chat" => chat_validate(inbound[r]).go
    /\ client' = [client EXCEPT ![r] = AsyncClient(open, r)]
    /\ open' = open \cup {AsyncClient(open, r)}
    /\ pc' = [pc EXCEPT ![r] = "client"]
    /\ UNCHANGED <<op, inbound, calls, outbound, upstream, pending, resp>>

\* client.get(...) / client.post(...) is issued
SendCall(r) ==
    /\ pc[r] = "client"
    /\ calls' = [calls EXCEPT ![r] = @ + 1]
    /\ outbound' = [outbound EXCEPT ![r] = OutboundCall(op[r], inbound[r])]
    /\ pc' = [pc EXCEPT ![r] = "awaiting"]
    /\ UNCHANGED <<op, inbound, client, open, upstream, pending, resp>>

\* mutant of Complete: a failed call is retried once
Complete_retry(r, out) ==
    /\ pc[r] = "awaiting"
    /\ IF TryBlock(op[r], out).tag = "raise" /\ calls[r] < 2
       THEN /\ pc' = [pc EXCEPT ![r] = "client"]
            /\ UNCHANGED <<upstream, pending>>
       ELSE /\ upstream' = [upstream EXCEPT ![r] = out]
            /\ pending' = [pending EXCEPT ![r] = TryBlock(op[r], out)]
            /\ pc' = [pc EXCEPT ![r] = "exiting"]
    /\ UNCHANGED <<op, inbound, client, open, calls, outbound, resp>>

\* the await ends and the rest of the try block runs
Complete(r, out) ==
    /\ pc[r] = "awaiting"
    /\ upstream' = [upstream EXCEPT ![r] = out]
    /\ pending' = [pending EXCEPT ![r] = TryBlock(op[r], out)]
    /\ pc' = [pc EXCEPT ![r] = "exiting"]
    /\ UNCHANGED <<op, inbound, client, open, calls, outbound, resp>>

\* mutant of Exit: no `async with`, the client is closed on the return path only
Exit_leak(r) ==
    /\ pc[r] = "exiting"
    /\ open' = IF pending[r].tag = "return" THEN open \ {client[r]} ELSE open
    /\ client' = [client EXCEPT ![r] = 0]
    /\ resp' = [resp EXCEPT ![r] = Handler(op[r], pending[r])]
    /\ pc' = [pc EXCEPT ![r] = "responded"]
    /\ UNCHANGED <<op, inbound, calls, outbound, upstream, pending>>

\* the `async with` block is left (the client is closed), then the value is
\* returned or an except clause answers
Exit(r) ==
    /\ pc[r] = "exiting"
    /\ open' = open \ {client[r]}
    /\ client' = [client EXCEPT ![r] = 0]
    /\ resp' = [resp EXCEPT ![r] = Handler(op[r], pending[r])]
    /\ pc' = [pc EXCEPT ![r] = "responded"]
    /\ UNCHANGED <<op, inbound, calls, outbound, upstream, pending>>

\* the response has been delivered; nothing of the request is kept
Retire(r) ==
    /\ pc[r] = "responded"
    /\ pc' = [pc EXCEPT ![r] = "idle"]
    /\ op' = [op EXCEPT ![r] = ""]
    /\ inbound' = [inbound EXCEPT ![r] = NoInbound]
    /\ calls' = [calls EXCEPT ![r] = 0]
    /\ outbound' = [outbound EXCEPT ![r] = NoCall]
    /\ upstream' = [upstream EXCEPT ![r] = NoOutcome]
    /\ pending' = [pending EXCEPT ![r] = NoResult]
    /\ resp' = [resp EXCEPT ![r] = NoResponse]
    /\ UNCHANGED <<client, open>>

Step(r, inbs, outs) ==
    \/ \E o \in Ops, inb \in inbs \cup {NoInbound} : Arrive(r, o, inb)
    \/ root(r)
    \/ ChatReject(r)
    \/ OpenClient(r)
    \/ SendCall(r)
    \/ \E out \in outs : Complete(r, out)
    \/ Exit(r)
    \/ Retire(r)

\* one request at a time, every input
Next == Step(1, Inbounds, Outcomes)
Spec == Init /\ [][Next]_vars

\* MaxInFlight requests interleaved, one input per exit path
ConcNext == \E r \in Slots : Step(r, ConcInbounds, ConcOutcomes)
ConcSpec == Init /\ [][ConcNext]_vars

\* ================================================================== claims
Done(r) == pc[r] = "responded"

\* the timeout the specification gives each route's outbound call
TimeoutOf(o) == IF o = "chat" THEN 120 ELSE 60
\* a 2xx status
TwoXX(c) == c \in 200..299

\* the outbound call of r did not complete within its timeout
TimedOut(r) ==
    upstream[r].kind = "response" /\ upstream[r].stall > TimeoutOf(op[r])
\* the upstream answered the call of r in time
Answered(r) ==
    upstream[r].kind = "response" /\ upstream[r].stall <= TimeoutOf(op[r])
UpstreamError(r) == Answered(r) /\ ~TwoXX(upstream[r].status)
UpstreamSuccess(r) == Answered(r) /\ TwoXX(upstream[r].status)

IsChatObject(r) == op[r] = "chat" /\ inbound[r].ok /\ inbound[r].val.k = "obj"
MessageMissing(r) ==
    /\ IsChatObject(r)
    /\ \/ ~HasField(inbound[r].val, "message")
       \/ Field(inbound[r].val, "message") = JStr(<<>>)
MessageGiven(r) ==
    /\ IsChatObject(r)
    /\ HasField(inbound[r].val, "message")
    /\ Field(inbound[r].val, "message").k = "str"
    /\ Field(inbound[r].val, "message").s # <<>>

C2_StatusPassthrough ==
    \A r \in Slots :
        Done(r) /\ UpstreamError(r) => resp[r].status = upstream[r].status

\* C3: on an upstream non-2xx status every route builds the body by one rule:
\* the upstream JSON verbatim if the body parses, otherwise {"error": <text>}.
C3_OneRule ==
    \A r \in Slots :
        Done(r) /\ UpstreamError(r) =>
            resp[r].body =
                IF ParseJson(upstream[r].text).ok
                THEN ParseJson(upstream[r].text).val
                ELSE ErrorBody(upstream[r].text)

\* C3 (amended): on an upstream non-2xx status the list routes answer
\* {"error": <text>} whether or not the text is JSON; IssueStreamingToken
\* answers {"error": <text>, "status": <status>, "details": ...}; Chat answers
\* {"error": ""} for an empty body, the parsed JSON verbatim for a body that
\* parses, and builds no body at all for a non-empty body that does not parse.
C3_BodyPerRoute ==
    \A r \in Slots :
        Done(r) /\ UpstreamError(r) =>
            LET t == upstream[r].text IN
            /\ op[r] \in ListOps => resp[r].body = ErrorBody(t)
            /\ op[r] = "get_streaming_token" =>
                   resp[r].body =
                       JObj({<<"error", JStr(t)>>,
                             <<"status", JNum(upstream[r].status)>>,
                             <<"details", JStr(<<"Check backend logs">>)>>})
            /\ op[r] = "chat" =>
                   IF t = <<>> THEN resp[r].body = ErrorBody(<<>>)
                   ELSE IF ParseJson(t).ok THEN resp[r].body = ParseJson(t).val
                   ELSE resp[r].by = "framework"

C3_Witness ==
    \E r \in Slots :
        /\ Done(r) /\ UpstreamError(r) /\ op[r] = "get_voices"
        /\ upstream[r].text = CodeText
        /\ resp[r].body = ErrorBody(CodeText)

\* the request of r failed: client error, upstream non-2xx, timeout,
\* transport failure or a body that does not parse
Failed(r) ==
    /\ op[r] \in Forwarding
    /\ \/ calls[r] = 0
       \/ upstream[r].kind = "neterr"
       \/ TimedOut(r)
       \/ UpstreamError(r)
       \/ UpstreamSuccess(r) /\ ~ParseJson(upstream[r].text).ok

\* the body of r's response is the upstream's own JSON error body
Verbatim(r) ==
    /\ UpstreamError(r)
    /\ ParseJson(upstream[r].text).ok
    /\ resp[r].body = ParseJson(upstream[r].text).val

\* C4: on every failure the response is produced by the handler itself (no
\* exception leaves it), and its JSON body has an `error` field unless it is
\* the upstream's own JSON error body passed through verbatim.
C4_NoEscape ==
    \A r \in Slots :
        Done(r) /\ Failed(r) =>
            /\ resp[r].by = "handler"
            /\ HasField(resp[r].body, "error") \/ Verbatim(r)

\* C5: an upstream success (2xx) with a JSON body of any shape is answered
\* with status 200 and a body identical to the upstream body, on every
\* forwarding route.
C5_SuccessVerbatim ==
    \A r \in Slots :
        Done(r) /\ UpstreamSuccess(r) /\ ParseJson(upstream[r].text).ok =>
            resp[r] = Response(200, ParseJson(upstream[r].text).val)

\* C5 (amended): the same, except that IssueStreamingToken does so only for
\* an upstream status of exactly 200 and a body that is a JSON object.
C5_SuccessVerbatimAmended ==
    \A r \in Slots :
        /\ Done(r) /\ UpstreamSuccess(r) /\ ParseJson(upstream[r].text).ok
        /\ op[r] = "get_streaming_token" =>
               /\ upstream[r].status = 200
               /\ ParseJson(upstream[r].text).val.k = "obj"
        => resp[r] = Response(200, ParseJson(upstream[r].text).val)

C5_Witness ==
    \E r \in Slots :
        /\ Done(r) /\ UpstreamSuccess(r) /\ op[r] = "get_avatars"
        /\ upstream[r].status = 201 /\ upstream[r].text = ArrayText
        /\ resp[r] = Response(200, JArr)

\* C6: an outbound call that does not complete within its timeout (60 s for
\* the avatar provider, 120 s for Chat) is answered 504 with an `error` field
\* that mentions the timeout, never 500 and never an upstream status.
C6_Timeout504 ==
    \A r \in Slots :
        Done(r) /\ TimedOut(r) =>
            /\ resp[r].by = "handler"
            /\ resp[r].status = 504
            /\ HasField(resp[r].body, "error")
            /\ Field(resp[r].body, "error").k = "str"
            /\ Head(Field(resp[r].body, "error").s) = "Request timeout: "

C6_Witness ==
    \E r \in Slots :
        /\ Done(r) /\ TimedOut(r) /\ op[r] = "chat"
        /\ upstream[r].status = 502
        /\ resp[r].status = 504

\* the body the specification gives the outbound Chat call
ExpectedPayload(data) ==
    IF /\ HasField(data, "conversation_id")
       /\ Field(data, "conversation_id").k = "str"
       /\ Field(data, "conversation_id").s # <<>>
    THEN JObj({<<"message", Field(data, "message")>>,
               <<"conversation_id", Field(data, "conversation_id")>>})
    ELSE JObj({<<"message", Field(data, "message")>>})

\* C7: the outbound Chat call carries exactly {"message": m}, plus
\* "conversation_id" when that is present and non-empty, and nothing else.
C7_ChatPayload ==
    \A r \in Slots :
        MessageGiven(r) /\ pc[r] \in {"awaiting", "exiting", "responded"} =>
            /\ calls[r] = 1
            /\ outbound[r].body = ExpectedPayload(inbound[r].val)

C7_Witness ==
    \E r \in Slots :
        /\ MessageGiven(r) /\ pc[r] = "awaiting"
        /\ HasField(inbound[r].val, "user")
        /\ DictGet(inbound[r].val, "conversation_id") = JStr(<<"abc">>)
        /\ outbound[r].body =
               JObj({<<"message", JStr(<<"hi">>)>>,
                     <<"conversation_id", JStr(<<"abc">>)>>})

\* C8: a request causes at most one outbound call: none for HealthCheck and
\* for a rejected Chat, exactly one for a forwarding request that passes
\* validation, and no second one after a failed call.
C8_AtMostOneCall ==
    \A r \in Slots :
        /\ calls[r] <= 1
        /\ op[r] = "root" => calls[r] = 0
        /\ op[r] = "chat" /\ ~MessageGiven(r) => calls[r] = 0
        /\ Done(r) /\ op[r] \in Forwarding /\ (op[r] = "chat" => MessageGiven(r))
               => calls[r] = 1
        /\ upstream[r] # NoOutcome => calls[r] = 1

C8_Witness ==
    \E r, q \in Slots :
        /\ r # q
        /\ Done(r) /\ op[r] = "get_voices" /\ upstream[r] = NetError /\ calls[r] = 1
        /\ Done(q) /\ op[q] = "root" /\ calls[q] = 0

\* a failure that is neither a timeout nor an upstream non-2xx status
GenericFailure(r) ==
    \/ op[r] \in Forwarding /\ upstream[r].kind = "neterr"
    \/ op[r] \in Forwarding /\ UpstreamSuccess(r) /\ ~ParseJson(upstream[r].text).ok
    \/ op[r] = "chat" /\ calls[r] = 0 /\ ~IsChatObject(r)
    \/ /\ op[r] = "get_streaming_token" /\ UpstreamSuccess(r)
       /\ ParseJson(upstream[r].text).ok
       /\ ParseJson(upstream[r].text).val.k # "obj"
       /\ upstream[r].status = 200

HasTrace(r) == op[r] \in {"get_streaming_token", "get_avatars"}

GenericBody(r) ==
    /\ resp[r].by = "handler"
    /\ resp[r].status = 500
    /\ HasField(resp[r].body, "error")
    /\ Field(resp[r].body, "error").k = "str"
    /\ Field(resp[r].body, "error").s \in
           {ConnectErrorMsg, JSONDecodeErrorMsg, AttributeErrorGet, AttributeErrorKeys}
    /\ HasField(resp[r].body, "traceback") <=> HasTrace(r)

\* C9: such a failure is answered 500 with `error` set to its description,
\* and with a trace field exactly on IssueStreamingToken and ListAllAvatars.
C9_Generic500 ==
    \A r \in Slots : Done(r) /\ GenericFailure(r) => GenericBody(r)

\* C9 (amended): the same, where for IssueStreamingToken an upstream success
\* is a status of exactly 200: any other status, 2xx included, is answered
\* with that status, not 500.
C9_Generic500Amended ==
    \A r \in Slots :
        Done(r) /\ GenericFailure(r) =>
            IF op[r] = "get_streaming_token" /\ Answered(r) /\ upstream[r].status # 200
            THEN resp[r].status = upstream[r].status
            ELSE GenericBody(r)

C9_Witness ==
    \E r \in Slots :
        /\ Done(r) /\ op[r] = "get_avatars" /\ UpstreamSuccess(r)
        /\ upstream[r].text = BadGatewayText
        /\ resp[r].status = 500 /\ HasField(resp[r].body, "traceback")

InFlight == {r \in Slots : pc[r] \notin {"idle", "responded"}}

\* C10: the client a request opens is closed before its response is
\* returned on every exit path, no client serves two requests, and the open
\* clients never outnumber the requests in flight.
C10_ClientsScoped ==
    /\ \A r \in Slots : pc[r] \in {"idle", "handling", "responded"} => client[r] = 0
    /\ \A r \in Slots : pc[r] \in {"client", "awaiting", "exiting"} => client[r] \in open
    /\ \A r, q \in Slots : r # q /\ client[r] # 0 => client[r] # client[q]
    /\ Cardinality(open) <= Cardinality(InFlight)
    /\ InFlight = {} => open = {}

C10_Witness ==
    \E r, q \in Slots :
        /\ Done(r) /\ op[r] = "chat" /\ resp[r].by = "framework"
        /\ pc[q] = "awaiting" /\ client[q] \in open
        /\ Cardinality(open) = 1

====
